---------------------------- MODULE Spec2Model ----------------------------
(***************************************************************************)
(* A model of the ChatLab library: the canonical session model             *)
(* (chatlab/models.py), the JSON / JSON-Lines / CSV parsers                *)
(* (chatlab/parsers), the exporters and the load/save entry points.        *)
(*                                                                         *)
(* Python values are represented as follows.  A dict is a function whose   *)
(* domain is a set of strings; a list is a sequence; None is the value     *)
(* NONE, which is distinct from every string the model uses.               *)
(*                                                                         *)
(* input is the argument of the first call, session the ChatSession the    *)
(* caller holds, outcome what the last call returned or raised, calls the  *)
(* functions the last call went through, files what it wrote, and parser   *)
(* the CSVParser instance a caller keeps for several parses.               *)
(***************************************************************************)
EXTENDS Integers, Sequences, FiniteSets, TLC

VARIABLES input, session, outcome, calls, files, parser

vars == <<input, session, outcome, calls, files, parser>>

-----------------------------------------------------------------------------
(* Bounds *)

MaxMsgs == 3
MaxMembers == 1

-----------------------------------------------------------------------------
(* Python values *)

SeqsUpTo(S, n) == UNION {[1..k -> S] : k \in 0..n}

NONE == "<None>"
NoSession == [none |-> TRUE]
EmptyDict == [k \in {} |-> NONE]

\* truth value of an Optional[str]: None and "" are both falsy
Truthy(v) == v # NONE /\ v # ""

\* dict.get(key, default)
Get(d, k, default) == IF k \in DOMAIN d THEN d[k] ELSE default

-----------------------------------------------------------------------------
(* models.py: the dataclasses and their to_dict / from_dict conversions *)

\* ChatMessage(...) and ChatMember(...)
Msg(sender, name, ts, type, content, id, reply) ==
    [sender |-> sender, account_name |-> name, timestamp |-> ts, type |-> type,
     content |-> content, platform_message_id |-> id, reply_to |-> reply]

Member(id, name, role, avatar, remark) ==
    [platform_id |-> id, account_name |-> name, role |-> role, avatar |-> avatar,
     remark |-> remark]

ChatLabVersion_to_dict(c) ==
    [version |-> c.version, exportedAt |-> c.exported_at, generator |-> c.generator]

ChatLabVersion_from_dict(data) ==
    [version     |-> Get(data, "version", "0.0.1"),
     exported_at |-> Get(data, "exportedAt", 0),
     generator   |-> Get(data, "generator", "unknown")]

ChatMeta_to_dict(m) ==
    [name |-> m.name, platform |-> m.platform, type |-> m.type, ownerId |-> m.owner_id]
      @@ (IF Truthy(m.avatar) THEN [avatar |-> m.avatar] ELSE EmptyDict)
      @@ (IF Truthy(m.description) THEN [description |-> m.description] ELSE EmptyDict)

ChatMeta_from_dict(data) ==
    [name        |-> Get(data, "name", "Unknown"),
     platform    |-> Get(data, "platform", "unknown"),
     type        |-> Get(data, "type", "private"),
     owner_id    |-> Get(data, "ownerId", ""),
     avatar      |-> Get(data, "avatar", NONE),
     description |-> Get(data, "description", NONE)]

ChatMember_to_dict(m) ==
    [platformId |-> m.platform_id, accountName |-> m.account_name]
      @@ (IF Truthy(m.role) THEN [role |-> m.role] ELSE EmptyDict)
      @@ (IF Truthy(m.avatar) THEN [avatar |-> m.avatar] ELSE EmptyDict)
      @@ (IF Truthy(m.remark) THEN [remark |-> m.remark] ELSE EmptyDict)

ChatMember_from_dict(data) ==
    [platform_id  |-> Get(data, "platformId", ""),
     account_name |-> Get(data, "accountName", ""),
     role         |-> Get(data, "role", NONE),
     avatar       |-> Get(data, "avatar", NONE),
     remark       |-> Get(data, "remark", NONE)]

ChatMessage_to_dict(m) ==
    [sender |-> m.sender, accountName |-> m.account_name, timestamp |-> m.timestamp,
     type |-> m.type, content |-> m.content, platformMessageId |-> m.platform_message_id]
      @@ (IF Truthy(m.reply_to) THEN [replyTo |-> m.reply_to] ELSE EmptyDict)

ChatMessage_from_dict(data) ==
    [sender              |-> Get(data, "sender", ""),
     account_name        |-> Get(data, "accountName", ""),
     timestamp           |-> Get(data, "timestamp", 0),
     type                |-> Get(data, "type", 0),
     content             |-> Get(data, "content", ""),
     platform_message_id |-> Get(data, "platformMessageId", ""),
     reply_to            |-> Get(data, "replyTo", NONE)]

\* an insertion in front of the elements of the same timestamp
InsertSorted_beforeties(sorted, m) ==
    LET k == Cardinality({i \in 1..Len(sorted) : sorted[i].timestamp < m.timestamp})
    IN  SubSeq(sorted, 1, k) \o <<m>> \o SubSeq(sorted, k + 1, Len(sorted))

\* list.sort(key=lambda x: x.timestamp): a stable sort.  InsertSorted puts m
\* behind every element whose timestamp is not larger.
InsertSorted(sorted, m) ==
    LET k == Cardinality({i \in 1..Len(sorted) : sorted[i].timestamp <= m.timestamp})
    IN  SubSeq(sorted, 1, k) \o <<m>> \o SubSeq(sorted, k + 1, Len(sorted))

\* a sort that leaves the list as it was given
SortByTimestamp_unsorted(ms) == ms

RECURSIVE SortFrom(_, _, _)
SortFrom(ms, i, acc) ==
    IF i > Len(ms) THEN acc ELSE SortFrom(ms, i + 1, InsertSorted(acc, ms[i]))

SortByTimestamp(ms) == SortFrom(ms, 1, <<>>)

\* ChatSession(...) followed by __post_init__
ChatSession(chatlab, meta, members, messages) ==
    [chatlab |-> chatlab, meta |-> meta, members |-> members,
     messages |-> SortByTimestamp(messages)]

MapSeq(s, Op(_)) == [i \in 1..Len(s) |-> Op(s[i])]

ChatSession_to_dict(s) ==
    [chatlab  |-> ChatLabVersion_to_dict(s.chatlab),
     meta     |-> ChatMeta_to_dict(s.meta),
     members  |-> MapSeq(s.members, ChatMember_to_dict),
     messages |-> MapSeq(s.messages, ChatMessage_to_dict)]

ChatSession_from_dict(data) ==
    ChatSession(ChatLabVersion_from_dict(Get(data, "chatlab", EmptyDict)),
                ChatMeta_from_dict(Get(data, "meta", EmptyDict)),
                MapSeq(Get(data, "members", <<>>), ChatMember_from_dict),
                MapSeq(Get(data, "messages", <<>>), ChatMessage_from_dict))

\* a split already at a gap equal to the threshold
GapExceeds_inclusive(prev, curr, max_gap) ==
    curr.timestamp - prev.timestamp >= 60 * max_gap

\* gap = (curr.timestamp - prev.timestamp) / 60 ; gap > max_gap_minutes.
\* The quotient is a real number: it exceeds the integer max_gap when its
\* integer part does, or when the integer part is equal and a remainder is left.
GapExceeds(prev, curr, max_gap) ==
    LET d == curr.timestamp - prev.timestamp
    IN  (d \div 60 > max_gap) \/ (d \div 60 = max_gap /\ d % 60 > 0)

RECURSIVE ThreadsLoop(_, _, _, _, _)
ThreadsLoop(ms, i, threads, current, max_gap) ==
    IF i > Len(ms)
    THEN IF current # <<>> THEN Append(threads, current) ELSE threads
    ELSE IF GapExceeds(ms[i - 1], ms[i], max_gap)
         THEN ThreadsLoop(ms, i + 1, Append(threads, current), <<ms[i]>>, max_gap)
         ELSE ThreadsLoop(ms, i + 1, threads, Append(current, ms[i]), max_gap)

get_conversation_threads(s, max_gap) ==
    IF s.messages = <<>> THEN <<>>
    ELSE ThreadsLoop(s.messages, 2, <<>>, <<s.messages[1]>>, max_gap)

\* a labelling that passes every code on to the table
MessageType_from_int_nofallback(value) == value

\* MessageType.from_int: the enum member of the code, TEXT for any other code
MessageType_from_int(value) == IF value \in 0..9 THEN value ELSE 0

\* MessageType.to_string
MessageType_to_string(value) ==
    CASE value = 0 -> "text"
      [] value = 1 -> "image"
      [] value = 2 -> "voice"
      [] value = 3 -> "video"
      [] value = 4 -> "file"
      [] value = 5 -> "location"
      [] value = 6 -> "link"
      [] value = 7 -> "sticker"
      [] value = 8 -> "system"
      [] value = 9 -> "revoked"
      [] OTHER -> "unknown"

\* msg.message_type
message_type(m) == MessageType_from_int(m.type)

\* msg.datetime_str, "%Y-%m-%d %H:%M:%S" of datetime.fromtimestamp(timestamp),
\* as <<year, month, day, hour, minute, second>>; the local time is UTC and
\* the timestamp lies in January 1970
datetime_str(ts) ==
    <<1970, 1, 1 + (ts \div 86400), (ts % 86400) \div 3600, (ts % 3600) \div 60, ts % 60>>

\* str.startswith on rendered times: the prefix ends with a whole component
startswith(s, prefix) ==
    /\ Len(prefix) <= Len(s)
    /\ \A i \in 1..Len(prefix) : s[i] = prefix[i]

\* the characters of the contents and keywords the model uses
Chars(s) ==
    CASE s = "" -> <<>>
      [] s = "hi" -> <<"h", "i">>
      [] s = "Hi" -> <<"H", "i">>
      [] s = "hello" -> <<"h", "e", "l", "l", "o">>
      [] s = "Hello" -> <<"H", "e", "l", "l", "o">>
      [] s = "HELLO" -> <<"H", "E", "L", "L", "O">>
      [] s = "ell" -> <<"e", "l", "l">>
      [] s = "ok" -> <<"o", "k">>
      [] s = "bye" -> <<"b", "y", "e">>
      [] s = "yo" -> <<"y", "o">>
      [] OTHER -> <<s>>

\* str.lower() on a sequence of characters
str_lower(cs) ==
    [i \in 1..Len(cs) |->
        CASE cs[i] = "H" -> "h"
          [] cs[i] = "E" -> "e"
          [] cs[i] = "L" -> "l"
          [] cs[i] = "O" -> "o"
          [] OTHER -> cs[i]]

\* needle in hay, on sequences of characters
contains(needle, hay) ==
    \E off \in 0..(Len(hay) - Len(needle)) :
        \A j \in 1..Len(needle) : hay[off + j] = needle[j]

get_messages_by_sender(s, sender_id) ==
    LET test(m) == m.sender = sender_id IN SelectSeq(s.messages, test)

get_messages_by_name(s, name) ==
    LET test(m) == m.account_name = name IN SelectSeq(s.messages, test)

get_messages_by_date(s, date_str) ==
    LET test(m) == startswith(datetime_str(m.timestamp), date_str)
    IN  SelectSeq(s.messages, test)

\* a filter that compares the labelled types
get_messages_by_type_labelled(s, msg_type) ==
    LET test(m) == message_type(m) = MessageType_from_int(msg_type)
    IN  SelectSeq(s.messages, test)

get_messages_by_type(s, msg_type) ==
    LET test(m) == m.type = msg_type IN SelectSeq(s.messages, test)

\* a search that lowers the keyword and not the content
get_messages_by_keyword_halflower(s, keyword, case_sensitive) ==
    LET fold(m) == contains(str_lower(Chars(keyword)), Chars(m.content))
        same(m) == contains(Chars(keyword), Chars(m.content))
    IN  IF ~case_sensitive THEN SelectSeq(s.messages, fold) ELSE SelectSeq(s.messages, same)

get_messages_by_keyword(s, keyword, case_sensitive) ==
    LET fold(m) == contains(str_lower(Chars(keyword)), str_lower(Chars(m.content)))
        same(m) == contains(Chars(keyword), Chars(m.content))
    IN  IF ~case_sensitive THEN SelectSeq(s.messages, fold) ELSE SelectSeq(s.messages, same)

get_message_by_id(s, msg_id) ==
    LET hits == {i \in 1..Len(s.messages) : s.messages[i].platform_message_id = msg_id}
    IN  IF hits = {} THEN NONE
        ELSE s.messages[CHOOSE i \in hits : \A j \in hits : i <= j]

\* datetime_str[:10], the date of a message
date_of(m) == SubSeq(datetime_str(m.timestamp), 1, 3)

\* the order of str on dates written YYYY-MM-DD
DateBefore(a, b) ==
    \/ a[1] < b[1]
    \/ a[1] = b[1] /\ a[2] < b[2]
    \/ a[1] = b[1] /\ a[2] = b[2] /\ a[3] < b[3]

\* d[key] = d.get(key, 0) + 1
Increment(d, key) ==
    IF key \in DOMAIN d THEN [d EXCEPT ![key] = @ + 1]
    ELSE [k \in DOMAIN d \cup {key} |-> IF k = key THEN 1 ELSE d[k]]

RECURSIVE TimelineLoop(_, _, _)
TimelineLoop(ms, i, timeline) ==
    IF i > Len(ms) THEN timeline
    ELSE TimelineLoop(ms, i + 1, Increment(timeline, date_of(ms[i])))

\* sorted(timeline.items())
RECURSIVE SortedItems(_, _)
SortedItems(timeline, keys) ==
    IF keys = {} THEN <<>>
    ELSE LET d == CHOOSE d \in keys : \A e \in keys \ {d} : DateBefore(d, e)
         IN  <<[date |-> d, count |-> timeline[d]]>> \o SortedItems(timeline, keys \ {d})

\* session.get_timeline(): the items of the returned dict, in its order
get_timeline(s) ==
    LET timeline == TimelineLoop(s.messages, 1, EmptyDict)
    IN  SortedItems(timeline, DOMAIN timeline)

\* the position of the sender's entry in the stats, 0 if it has none
StatsIndex(stats, key) ==
    IF \E k \in 1..Len(stats) : stats[k].sender = key
    THEN CHOOSE k \in 1..Len(stats) : stats[k].sender = key
    ELSE 0

\* an entry that already counts the message it is made for
NewSenderEntry_counted(m) ==
    [sender |-> m.sender, account_name |-> m.account_name, count |-> 1,
     first_message |-> datetime_str(m.timestamp), last_message |-> datetime_str(m.timestamp)]

\* the entry made when a sender is met for the first time
NewSenderEntry(m) ==
    [sender |-> m.sender, account_name |-> m.account_name, count |-> 0,
     first_message |-> datetime_str(m.timestamp), last_message |-> datetime_str(m.timestamp)]

RECURSIVE SenderStatsLoop(_, _, _)
SenderStatsLoop(ms, i, stats) ==
    IF i > Len(ms) THEN stats
    ELSE LET m == ms[i]
             k == StatsIndex(stats, m.sender)
             entered == IF k # 0 THEN stats ELSE Append(stats, NewSenderEntry(m))
             at == IF k # 0 THEN k ELSE Len(entered)
         IN  SenderStatsLoop(ms, i + 1,
                [entered EXCEPT ![at].count = @ + 1,
                                ![at].last_message = datetime_str(m.timestamp)])

\* session.get_sender_stats(): the entries of the returned dict, in its order,
\* each with its key
get_sender_stats(s) == SenderStatsLoop(s.messages, 1, <<>>)

RECURSIVE TypeCountsLoop(_, _, _)
TypeCountsLoop(ms, i, type_counts) ==
    IF i > Len(ms) THEN type_counts
    ELSE TypeCountsLoop(ms, i + 1,
            Increment(type_counts, MessageType_to_string(message_type(ms[i]))))

\* session.get_statistics()
get_statistics(s) ==
    IF s.messages = <<>>
    THEN [total_messages |-> 0, unique_senders |-> 0, date_range |-> NONE,
          message_types |-> EmptyDict, timeline |-> <<>>]
    ELSE [total_messages |-> Len(s.messages),
          unique_senders |-> Cardinality({s.messages[i].sender : i \in 1..Len(s.messages)}),
          date_range |-> [start |-> datetime_str(s.messages[1].timestamp),
                          end |-> datetime_str(s.messages[Len(s.messages)].timestamp)],
          message_types |-> TypeCountsLoop(s.messages, 1, EmptyDict),
          timeline |-> get_timeline(s),
          sender_stats |-> get_sender_stats(s)]

-----------------------------------------------------------------------------
(* Texts handed to the JSON parsers                                        *)
(*                                                                         *)
(* A text is a sequence of physical lines.  A line (or a whole text that   *)
(* spells one value over several lines) is described by what the decoders  *)
(* of the standard library make of it:                                     *)
(*   form "json"       strict JSON, decoding to val                        *)
(*   form "pylit"      not strict JSON, a Python literal evaluating to val *)
(*   form "comma"      neither, but a Python literal evaluating to val     *)
(*                     once the trailing commas are stripped, e.g. {,}     *)
(*   form "unhashable" a Python display with a list as dict key: {[1]: 2}  *)
(*   form "garbage"    none of these                                       *)
(*   form "blank"      white space only                                    *)
(* val is a tagged Python value, and mark tells whether the characters     *)
(* "_type" (with the double quotes) occur in the line.                     *)
(***************************************************************************)

DictVal(d) == [t |-> "dict", d |-> d]
IntVal(n)  == [t |-> "int", n |-> n]
NullVal    == [t |-> "null"]

Unit(form, val, mark) == [form |-> form, val |-> val, mark |-> mark]

NoUnit == [form |-> "none"]

Ok(v)     == [ok |-> TRUE, val |-> v]
Fail(e)   == [ok |-> FALSE, caught |-> TRUE, error |-> e]
Raise(e)  == [ok |-> FALSE, caught |-> FALSE, error |-> e]

\* json.loads(text)
json_loads(u) ==
    IF u.form = "json" THEN Ok(u.val) ELSE Fail("JSONDecodeError")

\* ast.literal_eval(text): strict JSON without the tokens true/false/null is
\* a Python literal as well; null is not a Python name
ast_literal_eval(u) ==
    CASE u.form = "pylit"      -> Ok(u.val)
      [] u.form = "json"       -> IF u.val.t = "null" THEN Fail("ValueError") ELSE Ok(u.val)
      [] u.form = "unhashable" -> Raise("TypeError")
      [] u.form = "comma"      -> Fail("SyntaxError")
      [] OTHER                 -> Fail("SyntaxError")

\* re.sub(r',(\s*[}\]])', r'\1', text)
StripTrailingCommas(u) ==
    IF u.form = "comma" THEN Unit("pylit", u.val, u.mark) ELSE u

\* JSONParser._try_fix_and_parse: every exception becomes None
try_fix_and_parse(u) ==
    LET r == ast_literal_eval(StripTrailingCommas(u))
    IN  IF r.ok THEN r.val ELSE NullVal

\* text.strip(): leading and trailing blank lines go
RECURSIVE DropLeadingBlank(_)
DropLeadingBlank(ls) ==
    IF ls # <<>> /\ Head(ls).form = "blank" THEN DropLeadingBlank(Tail(ls)) ELSE ls

RECURSIVE DropTrailingBlank(_)
DropTrailingBlank(ls) ==
    IF ls # <<>> /\ ls[Len(ls)].form = "blank"
    THEN DropTrailingBlank(SubSeq(ls, 1, Len(ls) - 1)) ELSE ls

Strip(ls) == DropTrailingBlank(DropLeadingBlank(ls))

\* the stripped text as one unit, as json.loads / ast.literal_eval see it:
\* two or more lines that each stand alone never form one value
WholeText(text) ==
    LET ls == Strip(text.lines)
    IN  IF text.joint # NoUnit THEN text.joint
        ELSE IF Len(ls) = 1 THEN ls[1]
        ELSE Unit("garbage", NullVal, \E i \in 1..Len(ls) : ls[i].mark)

Session(s, c) == [kind |-> "session", value |-> s, calls |-> c]
Error(e, c)   == [kind |-> "error", error |-> e, calls |-> c]

UnparseableError == "ValueError: cannot parse input"
MissingHeaderError == "ValueError: JSONL header line missing"

\* JSONParser.parse on a text (not a path).  data is None both before any
\* strategy succeeded and after one returned None.
JSONParser_parse(text) ==
    LET u  == WholeText(text)
        r1 == json_loads(u)
        d1 == IF r1.ok THEN r1.val ELSE NullVal
        c1 == <<"JSONParser.parse", "json.loads">>
        try2 == d1.t = "null"
        r2 == ast_literal_eval(u)
        c2 == IF try2 THEN c1 \o <<"ast.literal_eval">> ELSE c1
        d2 == IF try2 /\ r2.ok THEN r2.val ELSE d1
        try3 == d2.t = "null"
        c3 == IF try3 THEN c2 \o <<"_try_fix_and_parse">> ELSE c2
        d3 == IF try3 THEN try_fix_and_parse(u) ELSE d2
    IN  IF try2 /\ ~r2.ok /\ ~r2.caught THEN Error(r2.error, c2)
        ELSE IF d3.t = "null" THEN Error(UnparseableError, c3)
        ELSE IF d3.t = "dict" THEN Session(ChatSession_from_dict(d3.d), c3)
        ELSE Error("AttributeError", c3)

NoHeader == [set |-> FALSE]

\* one iteration of the loop of parse_jsonl: only JSONDecodeError is caught,
\* obj.get on a value that is not a dict raises AttributeError
JsonlLine(line, acc) ==
    IF line.form = "blank" \/ acc.aborted THEN acc
    ELSE LET r == json_loads(line)
         IN  IF ~r.ok THEN acc
             ELSE IF r.val.t # "dict" THEN [acc EXCEPT !.aborted = TRUE]
             ELSE LET type_ == Get(r.val.d, "_type", NONE)
                  IN  CASE type_ = "header"  -> [acc EXCEPT !.header = [set |-> TRUE, d |-> r.val.d]]
                        [] type_ = "member"  -> [acc EXCEPT !.members = Append(@, r.val.d)]
                        [] type_ = "message" -> [acc EXCEPT !.messages = Append(@, r.val.d)]
                        [] OTHER             -> acc

RECURSIVE JsonlLoop(_, _, _)
JsonlLoop(ls, i, acc) ==
    IF i > Len(ls) THEN acc ELSE JsonlLoop(ls, i + 1, JsonlLine(ls[i], acc))

\* JSONParser.parse_jsonl on a text (not a path)
parse_jsonl(text) ==
    LET acc == JsonlLoop(Strip(text.lines), 1,
                         [aborted |-> FALSE, header |-> NoHeader, members |-> <<>>, messages |-> <<>>])
    IN  IF acc.aborted THEN Error("AttributeError", <<"JSONParser.parse_jsonl">>)
        ELSE IF ~acc.header.set THEN Error(MissingHeaderError, <<"JSONParser.parse_jsonl">>)
        ELSE Session(ChatSession_from_dict(
                        [chatlab  |-> Get(acc.header.d, "chatlab", EmptyDict),
                         meta     |-> Get(acc.header.d, "meta", EmptyDict),
                         members  |-> acc.members,
                         messages |-> acc.messages]), <<"JSONParser.parse_jsonl">>)

\* '\n' in text and '"_type"' in text, on the stripped text
LooksLikeJsonl(text) ==
    LET ls == Strip(text.lines)
    IN  Len(ls) >= 2 /\ \E i \in 1..Len(ls) : ls[i].mark

\* AutoParser.parse on a text (not a path)
AutoParser_parse(text) ==
    LET j == parse_jsonl(text)
        p == JSONParser_parse(text)
    IN  IF LooksLikeJsonl(text)
        THEN IF j.kind = "session" THEN [j EXCEPT !.calls = <<"AutoParser.parse">> \o @]
             ELSE [p EXCEPT !.calls = <<"AutoParser.parse">> \o j.calls \o @]
        ELSE [p EXCEPT !.calls = <<"AutoParser.parse">> \o @]

\* Path.suffix.lower() on the extensions the model uses
suffix_lower(suffix) ==
    CASE suffix = ".JSONL" -> ".jsonl"
      [] suffix = ".Json" -> ".json"
      [] OTHER -> suffix

\* a selector that compares the extension as it is written
AutoParser_parse_path_exact(path) ==
    LET r == IF path.suffix = ".jsonl" THEN parse_jsonl(path.text)
             ELSE JSONParser_parse(path.text)
    IN  [r EXCEPT !.calls = <<"AutoParser.parse">> \o @]

\* AutoParser.parse on the path of an existing file; path.suffix is
\* Path(source).suffix and path.text what read_text returns in the parser
AutoParser_parse_path(path) ==
    LET r == IF suffix_lower(path.suffix) = ".jsonl" THEN parse_jsonl(path.text)
             ELSE JSONParser_parse(path.text)
    IN  [r EXCEPT !.calls = <<"AutoParser.parse">> \o @]

\* AutoParser.parse on either kind of source
AutoParser_parse_source(in) ==
    IF in.kind = "path" THEN AutoParser_parse_path(in) ELSE AutoParser_parse(in.text)

-----------------------------------------------------------------------------
(* parsers/csv_parser.py *)

\* A cell as csv.DictReader yields it.  s is the string (NONE for a cell the
\* row is too short for), isint / isnum tell whether int(s) / float(s) accept
\* it and num is int(float(s)); fmt is the index of the first strptime format
\* that matches (0 for none) and at is the epoch second of that local time.
Cell(s, isint, isnum, num, fmt, at) ==
    [s |-> s, isint |-> isint, isnum |-> isnum, num |-> num, fmt |-> fmt, at |-> at]

NumberCell  == Cell("100", TRUE, TRUE, 100, 0, 0)
FloatCell   == Cell("12.5", FALSE, TRUE, 12, 0, 0)
DateCell    == Cell("1970-01-02 00:00:00", FALSE, FALSE, 0, 1, 86400)
WordCell    == Cell("abc", FALSE, FALSE, 0, 0, 0)
EmptyCell   == Cell("", FALSE, FALSE, 0, 0, 0)
MissingCell == Cell(NONE, FALSE, FALSE, 0, 0, 0)

\* a default of row.get that is a plain string or number
Default(s) == Cell(s, FALSE, FALSE, 0, 0, 0)

StandardNames == <<"time", "sender", "content", "name", "type">>

\* the Chinese aliases of the table are written in pinyin (riqi, shijian, ...)
COLUMN_MAPPINGS ==
    [time    |-> <<"time", "timestamp", "riqi", "shijian", "Time", "Timestamp">>,
     sender  |-> <<"sender", "sender_id", "fasongzhe", "yonghu", "Sender", "From">>,
     content |-> <<"content", "message", "neirong", "xiaoxi", "Content", "Message">>,
     name    |-> <<"name", "account_name", "nicheng", "Name", "SenderName">>,
     type    |-> <<"type", "msg_type", "leixing", "Type">>]

\* str.lower() on the names the model uses
Lower(h) ==
    CASE h = "Time" -> "time"
      [] h = "Timestamp" -> "timestamp"
      [] h = "Sender" -> "sender"
      [] h = "From" -> "from"
      [] h = "Content" -> "content"
      [] h = "Message" -> "message"
      [] h = "Name" -> "name"
      [] h = "SenderName" -> "sendername"
      [] h = "Type" -> "type"
      [] OTHER -> h

Range(f) == {f[i] : i \in DOMAIN f}

\* a detection that maps each standard name to the header matching its first
\* alias, and keeps the mapping an earlier parse has left
detect_columns_cached(headers, column_map) ==
    LET hit(n, k) == \E i \in 1..Len(headers) : Lower(headers[i]) = Lower(COLUMN_MAPPINGS[n][k])
        found == {StandardNames[i] : i \in 1..Len(StandardNames)}
        first(n) == CHOOSE k \in 1..Len(COLUMN_MAPPINGS[n]) :
                        hit(n, k) /\ \A j \in 1..(k - 1) : ~hit(n, j)
        detected == [n \in {n \in found : \E k \in 1..Len(COLUMN_MAPPINGS[n]) : hit(n, k)} |->
                        headers[CHOOSE i \in 1..Len(headers) :
                                    Lower(headers[i]) = Lower(COLUMN_MAPPINGS[n][first(n)])]]
    IN  [raised |-> FALSE,
         column_map |-> IF DOMAIN column_map # {} THEN column_map ELSE detected]

\* CSVParser._detect_columns(rows[0].keys()): the first alias of a standard
\* name that is among the lower-cased headers is looked up as headers[idx];
\* headers is a dict_keys view, which cannot be subscripted, so the lookup
\* raises TypeError.  Without any match column_map is left as it was.
detect_columns(headers, column_map) ==
    LET headers_lower == {Lower(h) : h \in Range(headers)}
        matches(n) == \E k \in 1..Len(COLUMN_MAPPINGS[n]) :
                          Lower(COLUMN_MAPPINGS[n][k]) \in headers_lower
    IN  IF \E i \in 1..Len(StandardNames) : matches(StandardNames[i])
        THEN [raised |-> TRUE, error |-> "TypeError"]
        ELSE [raised |-> FALSE, column_map |-> column_map]

\* CSVParser._parse_timestamp
parse_timestamp(cell) ==
    IF cell.isnum THEN Ok(cell.num)
    ELSE IF cell.fmt # 0 THEN Ok(cell.at)
    ELSE Fail("ValueError")

\* f"csv_{idx}"
CsvId(idx) ==
    CASE idx = 0 -> "csv_0"
      [] idx = 1 -> "csv_1"
      [] idx = 2 -> "csv_2"
      [] idx = 3 -> "csv_3"
      [] OTHER   -> "csv_n"

\* CSVParser._parse_row(row, idx); row is the dict of one data row
parse_row(row, idx, column_map) ==
    LET time_col    == Get(column_map, "time", "time")
        ts          == parse_timestamp(Get(row, time_col, Default("")))
        timestamp   == IF ts.ok THEN ts.val ELSE idx
        sender_col  == Get(column_map, "sender", "sender")
        sender      == Get(row, sender_col, Default("unknown"))
        name_col    == Get(column_map, "name", sender_col)
        account     == Get(row, name_col, sender)
        content_col == Get(column_map, "content", "content")
        content     == Get(row, content_col, Default(""))
        type_col    == Get(column_map, "type", "type")
        type_cell   == Get(row, type_col, Default(""))
    IN  IF Truthy(type_cell.s) /\ ~type_cell.isint
        THEN Raise("ValueError")
        ELSE Ok(Msg(sender.s, account.s, timestamp,
                    IF Truthy(type_cell.s) THEN type_cell.num ELSE 0,
                    content.s, CsvId(idx), NONE))

RECURSIVE RowsLoop(_, _, _, _)
RowsLoop(rows, i, column_map, acc) ==
    IF i > Len(rows) \/ acc.raised THEN acc
    ELSE LET r == parse_row(rows[i], i - 1, column_map)
         IN  IF ~r.ok THEN [acc EXCEPT !.raised = TRUE, !.error = r.error]
             ELSE RowsLoop(rows, i + 1, column_map,
                    [acc EXCEPT !.messages = Append(@, r.val),
                                !.members = IF \E k \in 1..Len(@) : @[k].platform_id = r.val.sender
                                            THEN @
                                            ELSE Append(@, Member(r.val.sender, r.val.account_name,
                                                                  NONE, NONE, NONE))])

\* CSVParser.__init__: a new instance
CSVParser == [column_map |-> EmptyDict]

\* self.parse(text) on an instance, with the default platform, chat_name and
\* kwargs; now is int(datetime.now().timestamp()); self is the instance after
\* the call
CSVParser_parse_with(self, csv, now) ==
    LET rows == [i \in 1..Len(csv.rows) |->
                    [h \in Range(csv.headers) |->
                        csv.rows[i][CHOOSE k \in 1..Len(csv.headers) : csv.headers[k] = h]]]
        det  == detect_columns(csv.headers, self.column_map)
        acc  == RowsLoop(rows, 1, det.column_map,
                         [raised |-> FALSE, error |-> "", messages |-> <<>>, members |-> <<>>])
    IN  IF rows = <<>>
        THEN [self |-> self,
              result |-> Error("ValueError: CSV is empty", <<"CSVParser.parse">>)]
        ELSE IF det.raised
        THEN [self |-> self, result |-> Error(det.error, <<"CSVParser.parse">>)]
        ELSE IF acc.raised
        THEN [self |-> [column_map |-> det.column_map],
              result |-> Error(acc.error, <<"CSVParser.parse">>)]
        ELSE [self |-> [column_map |-> det.column_map],
              result |-> Session(ChatSession(
                        [version |-> "0.0.1", exported_at |-> now,
                         generator |-> "chatlab-csv-parser"],
                        [name |-> "Unknown", platform |-> "unknown", type |-> "private",
                         owner_id |-> "", avatar |-> NONE, description |-> NONE],
                        acc.members, acc.messages), <<"CSVParser.parse">>)]

\* CSVParser().parse(text): the same on a new instance
CSVParser_parse(csv, now) == CSVParser_parse_with(CSVParser, csv, now).result

-----------------------------------------------------------------------------
(* exporters/json_exporter.py and the entry points of chatlab/__init__.py *)

\* {"_type": tag, **d}
Tagged(tag, d) == [_type |-> tag] @@ d

\* an export that writes the messages before the members
export_stream_messagesfirst(s) ==
    <<[_type |-> "header", chatlab |-> ChatLabVersion_to_dict(s.chatlab),
       meta |-> ChatMeta_to_dict(s.meta)]>>
      \o [i \in 1..Len(s.messages) |-> Tagged("message", ChatMessage_to_dict(s.messages[i]))]
      \o [i \in 1..Len(s.members) |-> Tagged("member", ChatMember_to_dict(s.members[i]))]

\* JSONLExporter.export_stream / the lines JSONLExporter.export writes
export_stream(s) ==
    <<[_type |-> "header", chatlab |-> ChatLabVersion_to_dict(s.chatlab),
       meta |-> ChatMeta_to_dict(s.meta)]>>
      \o [i \in 1..Len(s.members) |-> Tagged("member", ChatMember_to_dict(s.members[i]))]
      \o [i \in 1..Len(s.messages) |-> Tagged("message", ChatMessage_to_dict(s.messages[i]))]

\* the rows CSVExporter.export writes
CSVExporter_rows(s) ==
    <<(<<"timestamp", "datetime", "sender", "account_name", "type", "content">>)>>
      \o [i \in 1..Len(s.messages) |->
            <<s.messages[i].timestamp, datetime_str(s.messages[i].timestamp),
              s.messages[i].sender, s.messages[i].account_name, s.messages[i].type,
              s.messages[i].content>>]

UnsupportedFormatError == "ValueError: unsupported format"
UnsupportedStringFormatError == "ValueError: unsupported string format"

\* a load that falls back to the auto selector for an unknown format
load_lenient(in, format, now) ==
    IF format = "jsonl" THEN parse_jsonl(in.text)
    ELSE IF format = "json" THEN JSONParser_parse(in.text)
    ELSE IF format = "csv" \/ in.kind = "csv" THEN CSVParser_parse(in.csv, now)
    ELSE AutoParser_parse(in.text)

\* chatlab.load(source, format)
load(in, format, now) ==
    IF format = "auto" THEN AutoParser_parse_source(in)
    ELSE IF format = "json" \/ format = "jsonl"
         THEN IF format = "jsonl" THEN parse_jsonl(in.text) ELSE JSONParser_parse(in.text)
    ELSE IF format = "csv" THEN CSVParser_parse(in.csv, now)
    ELSE Error(UnsupportedFormatError, <<>>)

File(format, content) == [format |-> format, content |-> content]

\* chatlab.save(session, filepath, format): the exporter called and the file written
save(s, format) ==
    CASE format = "json"  -> [ok |-> TRUE, calls |-> <<"JSONExporter.export">>,
                              files |-> {File("json", ChatSession_to_dict(s))}]
      [] format = "jsonl" -> [ok |-> TRUE, calls |-> <<"JSONLExporter.export">>,
                              files |-> {File("jsonl", export_stream(s))}]
      [] format = "csv"   -> [ok |-> TRUE, calls |-> <<"CSVExporter.export">>,
                              files |-> {File("csv", CSVExporter_rows(s))}]
      [] OTHER            -> [ok |-> FALSE, calls |-> <<>>, files |-> {},
                              error |-> UnsupportedFormatError]

\* chatlab.saves(session, format): the serializer called and the string returned
saves(s, format) ==
    CASE format = "json"  -> [ok |-> TRUE, calls |-> <<"ChatSession.to_json">>,
                              value |-> ChatSession_to_dict(s)]
      [] format = "jsonl" -> [ok |-> TRUE, calls |-> <<"JSONLExporter.export_stream">>,
                              value |-> export_stream(s)]
      [] OTHER            -> [ok |-> FALSE, calls |-> <<>>,
                              error |-> UnsupportedStringFormatError]

-----------------------------------------------------------------------------
(* Inputs of the constructor scenario *)

MessagePool ==
    {Msg("u1", "Alice", 0,    0,  "hi",    "m1", NONE),
     Msg("u2", "Bob",   100,  1,  "Hello", "m2", ""),
     Msg("u1", "Alice", 100,  12, "hello", "m3", "m1"),
     Msg("u2", "Bob",   1900, 0,  "ok",    "m4", NONE),
     Msg("u1", "Alice", 1901, 8,  "bye",   "m5", "m4"),
     Msg("u2", "Bob",   3000, 0,  "Hi",    "m6", "")}

MemberPool ==
    {Member("u1", "Alice", NONE, NONE, NONE),
     Member("u2", "Bob", "", "b.png", ""),
     Member("u3", "Carol", "admin", "", "boss")}

Meta(avatar, description) ==
    [name |-> "Chat", platform |-> "wechat", type |-> "group", owner_id |-> "u1",
     avatar |-> avatar, description |-> description]

MetaPool == {Meta(NONE, NONE), Meta("", "about"), Meta("a.png", "")}

Version == [version |-> "0.0.2", exported_at |-> 1770985548, generator |-> "WeFlow"]

ArgsInputs ==
    {[kind |-> "args", chatlab |-> Version, meta |-> me, members |-> mb, messages |-> ms] :
        me \in MetaPool, mb \in SeqsUpTo(MemberPool, MaxMembers),
        ms \in SeqsUpTo(MessagePool, MaxMsgs)}

\* thresholds handed to get_conversation_threads (minutes)
GapChoices == {0, 30, 50}

-----------------------------------------------------------------------------
(* Text inputs *)

MaxLines == 3

HeaderDict ==
    [_type |-> "header",
     chatlab |-> [version |-> "0.0.2", exportedAt |-> 1770985548, generator |-> "WeFlow"],
     meta |-> [name |-> "Chat", platform |-> "wechat", type |-> "group", ownerId |-> "u1"]]

BareHeaderDict == [_type |-> "header", meta |-> [name |-> "Other"]]

MemberDict == [_type |-> "member", platformId |-> "u1", accountName |-> "Alice"]

MessageDict(ts, id) ==
    [_type |-> "message", sender |-> "u1", accountName |-> "Alice", timestamp |-> ts,
     type |-> 0, content |-> "hi", platformMessageId |-> id]

BlankLine   == Unit("blank", NullVal, FALSE)
GarbageLine == Unit("garbage", NullVal, FALSE)
\* a truncated line such as {"_type": "message", "sender
TruncatedLine == Unit("garbage", NullVal, TRUE)
\* a line that is JSON but no object, such as 42
NumberLine  == Unit("json", IntVal(42), FALSE)

LinePool ==
    {Unit("json", DictVal(HeaderDict), TRUE),
     Unit("json", DictVal(BareHeaderDict), TRUE),
     Unit("json", DictVal(MemberDict), TRUE),
     Unit("json", DictVal(MessageDict(200, "m1")), TRUE),
     Unit("json", DictVal(MessageDict(100, "m2")), TRUE),
     Unit("json", DictVal([_type |-> "note"]), TRUE),
     BlankLine, GarbageLine, TruncatedLine, NumberLine}

\* a whole document in the canonical JSON format
DocumentDict ==
    [chatlab |-> HeaderDict.chatlab, meta |-> HeaderDict.meta,
     members |-> <<[platformId |-> "u1", accountName |-> "Alice"]>>,
     messages |-> <<[sender |-> "u1", accountName |-> "Alice", timestamp |-> 200, type |-> 0,
                     content |-> "hi", platformMessageId |-> "m1"],
                    [sender |-> "u2", accountName |-> "Bob", timestamp |-> 100, type |-> 1,
                     content |-> "yo", platformMessageId |-> "m2", replyTo |-> "m1"]>>]

\* whole values: {...} in strict JSON, {'...': ...} in Python quotes, the same
\* with a doubled trailing comma, {} and {,}, null and None, 42, {[1]: 2}, junk
ValuePool ==
    {Unit("json", DictVal(DocumentDict), FALSE),
     Unit("pylit", DictVal(DocumentDict), FALSE),
     Unit("comma", DictVal(DocumentDict), FALSE),
     Unit("json", DictVal(EmptyDict), FALSE),
     Unit("comma", DictVal(EmptyDict), FALSE),
     Unit("json", NullVal, FALSE),
     Unit("pylit", NullVal, FALSE),
     Unit("pylit", IntVal(42), FALSE),
     Unit("unhashable", NullVal, FALSE),
     GarbageLine}

Text(lines, joint) == [lines |-> lines, joint |-> joint]

\* JSON-Lines style texts, one-line texts (also behind a blank line), and
\* values spread over two lines, each of which is junk on its own
TextPool ==
    {Text(ls, NoUnit) : ls \in SeqsUpTo(LinePool, MaxLines)}
      \cup {Text(<<u>>, NoUnit) : u \in ValuePool}
      \cup {Text(<<BlankLine, u, BlankLine>>, NoUnit) : u \in ValuePool}
      \cup {Text(<<Unit("garbage", NullVal, m), GarbageLine>>, [u EXCEPT !.mark = m]) :
                u \in ValuePool, m \in BOOLEAN}

TextInputs == {[kind |-> "text", text |-> t] : t \in TextPool}

\* what an existing file may hold: up to two lines, or one whole value
FilePool ==
    {Text(ls, NoUnit) :
        ls \in SeqsUpTo({Unit("json", DictVal(HeaderDict), TRUE),
                         Unit("json", DictVal(MessageDict(200, "m1")), TRUE),
                         GarbageLine}, 2)}
      \cup {Text(<<u>>, NoUnit) : u \in ValuePool}

SuffixPool == {".jsonl", ".JSONL", ".json", ".Json", ".csv", ".txt", ""}

\* paths of existing files
PathInputs == {[kind |-> "path", suffix |-> x, text |-> t] : x \in SuffixPool, t \in FilePool}

-----------------------------------------------------------------------------
(* CSV inputs *)

MaxRows == 2

HeaderRows ==
    {<<"col">>, <<"col", "note">>, <<"time", "sender">>, <<"Time", "col">>,
     <<"type", "col">>, <<"content", "name">>}

CellPool == {NumberCell, FloatCell, DateCell, WordCell, EmptyCell, MissingCell}

\* the cells of the columns behind the first one
OtherCellPool == {NumberCell, WordCell}

RowsOf(h) ==
    {r \in [1..Len(h) -> CellPool] : \A k \in 2..Len(h) : r[k] \in OtherCellPool}

CsvInputs ==
    {[kind |-> "csv", csv |-> [headers |-> x[1], rows |-> x[2]]] :
        x \in UNION {{<<h, rs>> : rs \in SeqsUpTo(RowsOf(h), MaxRows)} : h \in HeaderRows}}

NowChoices == {1770985548, 1770985549}

\* format selectors a caller may pass
FormatChoices == {"auto", "json", "jsonl", "csv", "xml", "JSON"}

\* the selectors whose parser reads the kind of source at hand
Readable(in, format) ==
    CASE format \in {"auto", "json", "jsonl"} -> in.kind \in {"text", "path"}
      [] format = "csv" -> in.kind = "csv"
      [] OTHER -> in.kind \in {"text", "path", "csv"}

-----------------------------------------------------------------------------
(* State machine *)

NoOutcome == [op |-> "none"]

Init ==
    /\ input \in ArgsInputs \cup TextInputs \cup PathInputs \cup CsvInputs
    /\ session = NoSession
    /\ outcome = NoOutcome
    /\ calls = <<>>
    /\ files = {}
    /\ parser = CSVParser

\* a caller builds a session with the dataclass constructor
Construct ==
    /\ input.kind = "args"
    /\ session = NoSession
    /\ session' = ChatSession(input.chatlab, input.meta, input.members, input.messages)
    /\ outcome' = [op |-> "construct", kind |-> "session"]
    /\ calls' = <<"ChatSession">>
    /\ files' = {}
    /\ UNCHANGED <<input, parser>>

\* ChatSession.from_dict(session.to_dict())
RoundTrip ==
    /\ session # NoSession
    /\ outcome' = [op |-> "roundtrip", kind |-> "session",
                   value |-> ChatSession_from_dict(ChatSession_to_dict(session))]
    /\ calls' = <<"to_dict", "from_dict">>
    /\ files' = {}
    /\ UNCHANGED <<input, session, parser>>

\* session.get_conversation_threads(max_gap_minutes)
Threads ==
    /\ session # NoSession
    /\ \E g \in GapChoices :
          outcome' = [op |-> "threads", kind |-> "value", max_gap |-> g,
                      value |-> get_conversation_threads(session, g)]
    /\ calls' = <<"get_conversation_threads">>
    /\ files' = {}
    /\ UNCHANGED <<input, session, parser>>

\* the result of a call as the caller sees it
Outcome(op, r) ==
    IF r.kind = "session" THEN [op |-> op, kind |-> "session", value |-> r.value]
    ELSE [op |-> op, kind |-> "error", error |-> r.error]

Returned(r) == IF r.kind = "session" THEN r.value ELSE session

\* JSONParser().parse(text)
ParseJson ==
    /\ input.kind = "text"
    /\ outcome = NoOutcome
    /\ LET r == JSONParser_parse(input.text)
       IN  /\ outcome' = Outcome("parse", r)
           /\ session' = Returned(r)
           /\ calls' = r.calls
    /\ files' = {}
    /\ UNCHANGED <<input, parser>>

\* JSONParser().parse_jsonl(text)
ParseJsonl ==
    /\ input.kind = "text"
    /\ outcome = NoOutcome
    /\ LET r == parse_jsonl(input.text)
       IN  /\ outcome' = Outcome("parse_jsonl", r)
           /\ session' = Returned(r)
           /\ calls' = r.calls
    /\ files' = {}
    /\ UNCHANGED <<input, parser>>

\* AutoParser().parse(text)
AutoParse ==
    /\ input.kind = "text"
    /\ outcome = NoOutcome
    /\ LET r == AutoParser_parse(input.text)
       IN  /\ outcome' = Outcome("auto", r)
           /\ session' = Returned(r)
           /\ calls' = r.calls
    /\ files' = {}
    /\ UNCHANGED <<input, parser>>

\* AutoParser().parse(path) on an existing file
AutoParsePath ==
    /\ input.kind = "path"
    /\ outcome = NoOutcome
    /\ LET r == AutoParser_parse_path(input)
       IN  /\ outcome' = Outcome("auto_path", r)
           /\ session' = Returned(r)
           /\ calls' = r.calls
    /\ files' = {}
    /\ UNCHANGED <<input, parser>>

\* CSVParser().parse(text)
ParseCsv ==
    /\ input.kind = "csv"
    /\ outcome = NoOutcome
    /\ \E now \in NowChoices :
          LET r == CSVParser_parse(input.csv, now)
          IN  /\ outcome' = Outcome("parse_csv", r)
              /\ session' = Returned(r)
              /\ calls' = r.calls
    /\ files' = {}
    /\ UNCHANGED <<input, parser>>

\* chatlab.load(source, format=f)
Load ==
    /\ outcome = NoOutcome
    /\ \E f \in FormatChoices, now \in NowChoices :
          /\ Readable(input, f)
          /\ LET r == load(input, f, now)
             IN  /\ outcome' = Outcome("load", r) @@ [format |-> f]
                 /\ session' = Returned(r)
                 /\ calls' = <<"load">> \o r.calls
    /\ files' = {}
    /\ UNCHANGED <<input, parser>>

\* chatlab.save(session, filepath, format=f)
Save ==
    /\ session # NoSession
    /\ \E f \in FormatChoices :
          LET r == save(session, f)
          IN  /\ outcome' = IF r.ok THEN [op |-> "save", kind |-> "none", format |-> f]
                            ELSE [op |-> "save", kind |-> "error", format |-> f,
                                  error |-> r.error]
              /\ calls' = <<"save">> \o r.calls
              /\ files' = r.files
    /\ UNCHANGED <<input, session, parser>>

\* chatlab.saves(session, format=f)
Saves ==
    /\ session # NoSession
    /\ \E f \in FormatChoices :
          LET r == saves(session, f)
          IN  /\ outcome' = IF r.ok THEN [op |-> "saves", kind |-> "value", format |-> f,
                                          value |-> r.value]
                            ELSE [op |-> "saves", kind |-> "error", format |-> f,
                                  error |-> r.error]
              /\ calls' = <<"saves">> \o r.calls
    /\ files' = {}
    /\ UNCHANGED <<input, session, parser>>

Next ==
    \/ Construct \/ RoundTrip \/ Threads
    \/ ParseJson \/ ParseJsonl \/ AutoParse \/ AutoParsePath \/ ParseCsv
    \/ Load \/ Save \/ Saves

Spec == Init /\ [][Next]_vars

-----------------------------------------------------------------------------
(* Queries on a session *)

\* messages over two days, with codes outside the table, one sender under two
\* names, one name for two senders and one id used twice
QueryMessagePool ==
    {Msg("u1", "Alice", 0,     0,   "hi",    "m1", NONE),
     Msg("u2", "Bob",   100,   1,   "Hello", "m2", "m1"),
     Msg("u1", "Al",    100,   12,  "hello", "m3", NONE),
     Msg("u3", "Bob",   86400, 0-1, "HELLO", "m2", NONE),
     Msg("u2", "Bob",   90000, 9,   "ok",    "m5", NONE)}

QueryInputs ==
    {[kind |-> "args", chatlab |-> Version, meta |-> Meta(NONE, NONE), members |-> <<>>,
      messages |-> ms] : ms \in SeqsUpTo(QueryMessagePool, MaxMsgs)}

SenderChoices == {"u1", "u2", "zz"}
NameChoices == {"Bob", "Al"}
TypeChoices == {0, 1, 12}
\* "1970-01-01", "1970-01-02", "1970-01" and ""
DateChoices == {<<1970, 1, 1>>, <<1970, 1, 2>>, <<1970, 1>>, <<>>}
KeywordChoices == {"hello", "HELLO", "Hi", "ell", ""}
IdChoices == {"m2", "zz"}

InitQuery ==
    /\ input \in QueryInputs
    /\ session = NoSession
    /\ outcome = NoOutcome
    /\ calls = <<>>
    /\ files = {}
    /\ parser = CSVParser

\* what a query returned, with the argument it was given
Answer(op, arg, value) == [op |-> op, kind |-> "value", arg |-> arg, value |-> value]

BySender ==
    /\ session # NoSession
    /\ \E x \in SenderChoices :
          outcome' = Answer("by_sender", x, get_messages_by_sender(session, x))
    /\ calls' = <<"get_messages_by_sender">>
    /\ files' = {}
    /\ UNCHANGED <<input, session, parser>>

ByName ==
    /\ session # NoSession
    /\ \E x \in NameChoices :
          outcome' = Answer("by_name", x, get_messages_by_name(session, x))
    /\ calls' = <<"get_messages_by_name">>
    /\ files' = {}
    /\ UNCHANGED <<input, session, parser>>

ByType ==
    /\ session # NoSession
    /\ \E x \in TypeChoices :
          outcome' = Answer("by_type", x, get_messages_by_type(session, x))
    /\ calls' = <<"get_messages_by_type">>
    /\ files' = {}
    /\ UNCHANGED <<input, session, parser>>

ByDate ==
    /\ session # NoSession
    /\ \E x \in DateChoices :
          outcome' = Answer("by_date", x, get_messages_by_date(session, x))
    /\ calls' = <<"get_messages_by_date">>
    /\ files' = {}
    /\ UNCHANGED <<input, session, parser>>

ByKeyword ==
    /\ session # NoSession
    /\ \E x \in KeywordChoices, cs \in BOOLEAN :
          outcome' = Answer("by_keyword", x, get_messages_by_keyword(session, x, cs))
                        @@ [case_sensitive |-> cs]
    /\ calls' = <<"get_messages_by_keyword">>
    /\ files' = {}
    /\ UNCHANGED <<input, session, parser>>

\* the message found, wrapped in a list; no element when None is returned
ById ==
    /\ session # NoSession
    /\ \E x \in IdChoices :
          LET m == get_message_by_id(session, x)
              some == \E i \in 1..Len(session.messages) :
                          session.messages[i].platform_message_id = x
          IN  outcome' = Answer("by_id", x, IF some THEN <<m>> ELSE <<>>)
    /\ calls' = <<"get_message_by_id">>
    /\ files' = {}
    /\ UNCHANGED <<input, session, parser>>

Timeline ==
    /\ session # NoSession
    /\ outcome' = Answer("timeline", NONE, get_timeline(session))
    /\ calls' = <<"get_timeline">>
    /\ files' = {}
    /\ UNCHANGED <<input, session, parser>>

SenderStats ==
    /\ session # NoSession
    /\ outcome' = Answer("sender_stats", NONE, get_sender_stats(session))
    /\ calls' = <<"get_sender_stats">>
    /\ files' = {}
    /\ UNCHANGED <<input, session, parser>>

Statistics ==
    /\ session # NoSession
    /\ outcome' = Answer("statistics", NONE, get_statistics(session))
    /\ calls' = <<"get_statistics">>
    /\ files' = {}
    /\ UNCHANGED <<input, session, parser>>

NextQuery ==
    \/ Construct \/ RoundTrip \/ Threads \/ Saves
    \/ BySender \/ ByName \/ ByType \/ ByDate \/ ByKeyword \/ ById
    \/ Timeline \/ SenderStats \/ Statistics

SpecQuery == InitQuery /\ [][NextQuery]_vars

-----------------------------------------------------------------------------
(* Several parses with one CSVParser instance *)

MaxParses == 2

\* CSV inputs of at most one data row
ReusePool ==
    {c \in {[headers |-> h, rows |-> rs] :
                h \in HeaderRows, rs \in SeqsUpTo({<<NumberCell>>, <<WordCell>>,
                                                   <<NumberCell, NumberCell>>,
                                                   <<WordCell, NumberCell>>,
                                                   <<NumberCell, WordCell>>}, 1)} :
        \A i \in 1..Len(c.rows) : Len(c.rows[i]) = Len(c.headers)}

\* the texts handed to one instance, one after the other
ReuseInputs == {[kind |-> "csvs", csvs |-> q] : q \in [1..MaxParses -> ReusePool]}

InitReuse ==
    /\ input \in ReuseInputs
    /\ session = NoSession
    /\ outcome = NoOutcome
    /\ calls = <<>>
    /\ files = {}
    /\ parser = CSVParser

\* parser.parse(text) on the next input, with the instance made at the start
ParseNext ==
    /\ input.kind = "csvs"
    /\ LET k == IF outcome = NoOutcome THEN 1 ELSE outcome.index + 1
       IN  /\ k <= Len(input.csvs)
           /\ \E now \in NowChoices :
                 LET r == CSVParser_parse_with(parser, input.csvs[k], now)
                 IN  /\ outcome' = Outcome("reuse", r.result) @@ [index |-> k, now |-> now]
                     /\ session' = Returned(r.result)
                     /\ calls' = r.result.calls
                     /\ parser' = r.self
    /\ files' = {}
    /\ UNCHANGED input

NextReuse == ParseNext

SpecReuse == InitReuse /\ [][NextReuse]_vars

-----------------------------------------------------------------------------
(* A session written as JSON Lines and parsed again *)

\* strings holding a character that str.splitlines takes for the end of a
\* line and that json.dumps(..., ensure_ascii=False) writes as it is: U+2028,
\* U+2029 or U+0085.  <LS> stands for U+2028.
LineBreakStrings == {"a<LS>b", "Chat<LS>"}

StringKeys ==
    {"version", "generator", "name", "platform", "type", "ownerId", "avatar", "description",
     "platformId", "accountName", "role", "remark", "sender", "content",
     "platformMessageId", "replyTo"}

\* the strings json.dumps writes for a dict of strings and numbers; type is a
\* string in meta and a number in a message
StringsOf(d) == {d[k] : k \in (DOMAIN d \cap StringKeys) \ {"type"}}

StringsOfLine(line) ==
    IF line._type = "header" THEN StringsOf(line.chatlab) \cup StringsOf(line.meta)
    ELSE StringsOf(line)

\* json.dumps(line, ensure_ascii=False) as text.strip().splitlines() returns
\* it: one line that json.loads reads back, or, cut at the line break
\* character, two pieces that json.loads rejects, the first with the mark
\* "_type"
DumpedLine(line) ==
    IF StringsOfLine(line) \cap LineBreakStrings = {}
    THEN <<Unit("json", DictVal(line), TRUE)>>
    ELSE <<Unit("garbage", NullVal, TRUE), Unit("garbage", NullVal, FALSE)>>

RECURSIVE DumpedLines(_, _)
DumpedLines(lines, i) ==
    IF i > Len(lines) THEN <<>> ELSE DumpedLine(lines[i]) \o DumpedLines(lines, i + 1)

\* "\n".join(exporter.export_stream(session)), and what JSONLExporter.export
\* writes to a file
JsonlText(s) == Text(DumpedLines(export_stream(s), 1), NoUnit)

\* JSONParser.parse_jsonl(source) on the serialization of s.  By the route
\* "text" the string itself is the source, by "file" the path of the file
\* written.  Path(source).exists() is asked first: for a string with a path
\* component longer than a file name may be, the interpreter either lets the
\* OSError of stat through (raises) or answers False.
jsonl_roundtrip(s, route, raises) ==
    IF route = "text" /\ raises THEN Error("OSError", <<"JSONParser.parse_jsonl">>)
    ELSE parse_jsonl(JsonlText(s))

\* a header line and a message line of the sessions of the model are longer,
\* together, than the 255 bytes of a file name
TooLongForAName(s) == s.messages # <<>>

JsonlMessagePool ==
    {Msg("u1", "Alice", 0,   0, "hi",     "m1", NONE),
     Msg("u2", "Bob",   100, 1, "Hello",  "m2", ""),
     Msg("u1", "Alice", 50,  0, "a<LS>b", "m7", "m1")}

JsonlMetaPool ==
    {Meta(NONE, NONE), Meta("", "about"), [Meta(NONE, NONE) EXCEPT !.name = "Chat<LS>"]}

JsonlInputs ==
    {[kind |-> "args", chatlab |-> Version, meta |-> me, members |-> mb, messages |-> ms] :
        me \in JsonlMetaPool, mb \in SeqsUpTo(MemberPool, MaxMembers),
        ms \in SeqsUpTo(JsonlMessagePool, MaxMsgs)}

RouteChoices == {"text", "file"}

InitJsonl ==
    /\ input \in JsonlInputs
    /\ session = NoSession
    /\ outcome = NoOutcome
    /\ calls = <<>>
    /\ files = {}
    /\ parser = CSVParser

\* JSONParser().parse_jsonl(chatlab.saves(session, "jsonl")), or
\* chatlab.save(session, path, "jsonl") and then JSONParser().parse_jsonl(path)
JsonlRoundTrip ==
    /\ session # NoSession
    /\ \E route \in RouteChoices, raises \in BOOLEAN :
          /\ raises => (route = "text" /\ TooLongForAName(session))
          /\ LET r == jsonl_roundtrip(session, route, raises)
             IN  /\ outcome' = Outcome("jsonl_roundtrip", r) @@ [route |-> route]
                 /\ calls' = r.calls
          /\ files' = IF route = "file" THEN save(session, "jsonl").files ELSE {}
    /\ UNCHANGED <<input, session, parser>>

NextJsonl == Construct \/ JsonlRoundTrip

SpecJsonl == InitJsonl /\ [][NextJsonl]_vars

-----------------------------------------------------------------------------
(* Properties *)

IsSorted(ms) == \A i \in 1..(Len(ms) - 1) : ms[i].timestamp <= ms[i + 1].timestamp

Timestamps(ms) == [i \in 1..Len(ms) |-> ms[i].timestamp]

RECURSIVE Concat(_)
Concat(ss) == IF ss = <<>> THEN <<>> ELSE Head(ss) \o Concat(Tail(ss))

RECURSIVE TotalLen(_, _)
TotalLen(ss, k) == IF k = 0 THEN 0 ELSE Len(ss[k]) + TotalLen(ss, k - 1)

\* position i of the concatenation is the first element of a thread other than the first
StartsThread(ts, i) == \E k \in 1..(Len(ts) - 1) : i = TotalLen(ts, k) + 1

\* C1: JSON round trip: from_dict(to_dict(S)) has the same chatlab, meta, members
\* and messages as S, whatever the optional fields hold (None, "" or a value).
C1_RoundTripIdentity ==
    outcome.op = "roundtrip" =>
        /\ outcome.value.chatlab = session.chatlab
        /\ outcome.value.meta = session.meta
        /\ outcome.value.members = session.members
        /\ outcome.value.messages = session.messages

\* C2: every session produced by a constructor path, and every session after
\* any sequence of queries and exports, has its messages in ascending
\* timestamp order.
C2_SortInvariant ==
    /\ session # NoSession => IsSorted(session.messages)
    /\ (outcome.op # "none" /\ outcome.kind = "session" /\ "value" \in DOMAIN outcome)
          => IsSorted(outcome.value.messages)

C2_Witness ==
    /\ input.kind = "args"
    /\ ~IsSorted(input.messages)
    /\ session # NoSession
    /\ outcome.op = "threads"

\* C3: get_conversation_threads returns non-empty contiguous runs whose
\* concatenation is session.messages; message i starts a new thread iff its
\* distance to message i-1 is strictly more than 60 * max_gap_minutes seconds;
\* no messages give no thread, one message gives one thread; timestamps
\* [0, 100, 3000] with threshold 30 give [[0, 100], [3000]].
C3_Segmentation ==
    outcome.op = "threads" =>
        LET ts == outcome.value
            ms == session.messages
            g  == outcome.max_gap
        IN  /\ \A k \in 1..Len(ts) : ts[k] # <<>>
            /\ Concat(ts) = ms
            /\ ms = <<>> => ts = <<>>
            /\ Len(ms) = 1 => Len(ts) = 1
            /\ \A i \in 2..Len(ms) :
                  StartsThread(ts, i) <=> (ms[i].timestamp - ms[i - 1].timestamp > 60 * g)
            /\ (Timestamps(ms) = <<0, 100, 3000>> /\ g = 30)
                  => MapSeq(ts, Timestamps) = <<(<<0, 100>>), (<<3000>>)>>

C3_Witness ==
    /\ outcome.op = "threads"
    /\ outcome.max_gap = 30
    /\ Timestamps(session.messages) = <<0, 100, 3000>>
    /\ MapSeq(outcome.value, Timestamps) = <<(<<0, 100>>), (<<3000>>)>>

\* a gap of exactly 30 minutes (100 -> 1900) does not split
C3_WitnessBoundary ==
    /\ outcome.op = "threads"
    /\ outcome.max_gap = 30
    /\ Timestamps(session.messages) = <<100, 1900, 3000>>
    /\ Len(outcome.value) = 1

IsObjectLine(l) == l.form = "json" /\ l.val.t = "dict"

IsHeaderLine(l) == IsObjectLine(l) /\ Get(l.val.d, "_type", NONE) = "header"

HasHeader(text) == \E i \in 1..Len(text.lines) : IsHeaderLine(text.lines[i])

\* a non-blank line that is not a JSON object
Malformed(l) == l.form # "blank" /\ ~IsObjectLine(l)

WellFormedOnly(ls) == SelectSeq(ls, LAMBDA l : ~Malformed(l))

WithoutMalformed(text) == [text EXCEPT !.lines = WellFormedOnly(@)]

\* C4: parse_jsonl of a document with a header line never aborts on a
\* malformed line: it returns the session of the document without those lines.
C4_MalformedLinesSkipped ==
    (outcome.op = "parse_jsonl" /\ HasHeader(input.text)) =>
        /\ outcome.kind = "session"
        /\ outcome.value = parse_jsonl(WithoutMalformed(input.text)).value

\* C5: parse_jsonl fails with the missing-header format error exactly when no
\* line decodes to an object tagged header, whatever else the document holds;
\* with a header line it returns a session.
C5_HeaderRequired ==
    outcome.op = "parse_jsonl" =>
        /\ (outcome.kind = "error" /\ outcome.error = MissingHeaderError)
              <=> ~HasHeader(input.text)
        /\ HasHeader(input.text) => outcome.kind = "session"
        /\ ~HasHeader(input.text) => outcome.kind = "error"

Strategies == <<"json.loads", "ast.literal_eval", "_try_fix_and_parse">>

IsPrefix(a, b) == Len(a) <= Len(b) /\ SubSeq(b, 1, Len(a)) = a

Attempted(name) == \E i \in 1..Len(calls) : calls[i] = name

Succeeds1(u) == json_loads(u).ok
Succeeds2(u) == ast_literal_eval(u).ok
Succeeds3(u) == ast_literal_eval(StripTrailingCommas(u)).ok

\* the value of the first strategy that succeeds
FirstValue(u) ==
    IF Succeeds1(u) THEN json_loads(u).val
    ELSE IF Succeeds2(u) THEN ast_literal_eval(u).val
    ELSE ast_literal_eval(StripTrailingCommas(u)).val

\* C6: JSONParser.parse tries strict JSON, then the Python literal, then the
\* comma repair; a later strategy runs only if all earlier ones failed; the
\* session is built from the value of the first success; the call fails with
\* the format error exactly when all three fail.
C6_FallbackChain ==
    outcome.op = "parse" =>
        LET u == WholeText(input.text)
            any == Succeeds1(u) \/ Succeeds2(u) \/ Succeeds3(u)
        IN  /\ IsPrefix(Tail(calls), Strategies)
            /\ Attempted("ast.literal_eval") => ~Succeeds1(u)
            /\ Attempted("_try_fix_and_parse") => (~Succeeds1(u) /\ ~Succeeds2(u))
            /\ (any /\ FirstValue(u).t = "dict")
                  => /\ outcome.kind = "session"
                     /\ outcome.value = ChatSession_from_dict(FirstValue(u).d)
            /\ (outcome.kind = "error" /\ outcome.error = UnparseableError) <=> ~any

\* C10: AutoParser.parse on a text tries parse_jsonl only when the stripped
\* text has a newline and the mark "_type"; otherwise its outcome is that of
\* JSONParser.parse; when both hold and a header line is present its outcome is
\* that of parse_jsonl; a failure of parse_jsonl is followed by JSONParser.parse.
C10_AutoOnText ==
    outcome.op = "auto" =>
        LET t == input.text
            j == Outcome("auto", parse_jsonl(t))
            p == Outcome("auto", JSONParser_parse(t))
        IN  /\ Attempted("JSONParser.parse_jsonl") => LooksLikeJsonl(t)
            /\ ~LooksLikeJsonl(t) => outcome = p
            /\ (LooksLikeJsonl(t) /\ HasHeader(t)) => outcome = j
            /\ (LooksLikeJsonl(t) /\ j.kind = "error")
                  => (Attempted("JSONParser.parse") /\ outcome = p)

Dataless == {NONE, ""}

\* the column the inference maps the logical field to: the header matching the
\* first alias, without regard to case, else the name of the field itself
InferredColumn(headers, field) ==
    LET hit(k) == \E i \in 1..Len(headers) : Lower(headers[i]) = Lower(COLUMN_MAPPINGS[field][k])
        first == CHOOSE k \in 1..Len(COLUMN_MAPPINGS[field]) :
                    hit(k) /\ \A j \in 1..(k - 1) : ~hit(j)
    IN  IF \E k \in 1..Len(COLUMN_MAPPINGS[field]) : hit(k)
        THEN headers[CHOOSE i \in 1..Len(headers) :
                        Lower(headers[i]) = Lower(COLUMN_MAPPINGS[field][first])]
        ELSE field

\* the cell of data row i (1-based) under the inferred column of the field
FieldCell(csv, i, field) ==
    LET col == InferredColumn(csv.headers, field)
    IN  IF \E k \in 1..Len(csv.headers) : csv.headers[k] = col
        THEN csv.rows[i][CHOOSE k \in 1..Len(csv.headers) : csv.headers[k] = col]
        ELSE MissingCell

MessageOfRow(s, i) ==
    CHOOSE m \in Range(s.messages) : m.platform_message_id = CsvId(i - 1)

\* C7: a data row at zero-based index i whose time cell parses neither as a
\* number nor under a date format (or is missing or empty) yields a message
\* with timestamp i.
C7_TimestampFallback ==
    outcome.op = "parse_csv" =>
        \A i \in 1..Len(input.csv.rows) :
            ~parse_timestamp(FieldCell(input.csv, i, "time")).ok
                => /\ outcome.kind = "session"
                   /\ \E m \in Range(outcome.value.messages) :
                          m.platform_message_id = CsvId(i - 1)
                   /\ MessageOfRow(outcome.value, i).timestamp = i - 1

\* C8: a CSV input with at least one data row yields a session with one
\* message per data row; a type cell that is missing, empty or no integer
\* gives type 0.
C8_RowErrorsContained ==
    (outcome.op = "parse_csv" /\ input.csv.rows # <<>>) =>
        /\ outcome.kind = "session"
        /\ Len(outcome.value.messages) = Len(input.csv.rows)
        /\ \A i \in 1..Len(input.csv.rows) :
              LET c == FieldCell(input.csv, i, "type")
              IN  (c.s \in Dataless \/ ~c.isint) => MessageOfRow(outcome.value, i).type = 0

LoadFormats  == {"auto", "json", "jsonl", "csv"}
SaveFormats  == {"json", "jsonl", "csv"}
SavesFormats == {"json", "jsonl"}

Unsupported ==
    outcome.kind = "error"
      /\ outcome.error \in {UnsupportedFormatError, UnsupportedStringFormatError}

ParserOf(f) ==
    CASE f = "auto"  -> "AutoParser.parse"
      [] f = "json"  -> "JSONParser.parse"
      [] f = "jsonl" -> "JSONParser.parse_jsonl"
      [] f = "csv"   -> "CSVParser.parse"

ExporterOf(f) ==
    CASE f = "json"  -> "JSONExporter.export"
      [] f = "jsonl" -> "JSONLExporter.export"
      [] f = "csv"   -> "CSVExporter.export"

SerializerOf(f) ==
    CASE f = "json"  -> "ChatSession.to_json"
      [] f = "jsonl" -> "JSONLExporter.export_stream"

\* C9: load, save and saves fail with the unsupported-format error exactly for
\* a selector outside their recognized set, then without calling a parser or
\* exporter, returning a session or writing a file; a recognized selector
\* goes to the parser / exporter of that format and to no other.
C9_UnsupportedFormat ==
    /\ outcome.op = "load" =>
          /\ Unsupported <=> outcome.format \notin LoadFormats
          /\ Unsupported => (calls = <<"load">> /\ session = NoSession /\ files = {})
          /\ outcome.format \in LoadFormats => calls[2] = ParserOf(outcome.format)
    /\ outcome.op = "save" =>
          /\ Unsupported <=> outcome.format \notin SaveFormats
          /\ Unsupported => (calls = <<"save">> /\ files = {})
          /\ outcome.format \in SaveFormats =>
                /\ calls = <<"save", ExporterOf(outcome.format)>>
                /\ \A f \in files : f.format = outcome.format
                /\ files # {}
    /\ outcome.op = "saves" =>
          /\ Unsupported <=> outcome.format \notin SavesFormats
          /\ Unsupported => (calls = <<"saves">> /\ files = {})
          /\ outcome.format \in SavesFormats =>
                calls = <<"saves", SerializerOf(outcome.format)>>

C9_Witness ==
    /\ outcome.op = "load"
    /\ outcome.format = "xml"
    /\ input.kind = "text"
    /\ JSONParser_parse(input.text).kind = "session"
    /\ outcome.kind = "error"
    /\ calls = <<"load">>

C9_WitnessSave ==
    /\ outcome.op = "save"
    /\ outcome.format = "JSON"
    /\ outcome.kind = "error"
    /\ files = {}


-----------------------------------------------------------------------------
(* The auto selector on a path *)

ByAuto == outcome.op \in {"auto", "auto_path"} \/ (outcome.op = "load" /\ outcome.format = "auto")

\* the outcome a call of the given parser has on what the file holds
SameResult(r) ==
    /\ outcome.kind = r.kind
    /\ r.kind = "session" => outcome.value = r.value
    /\ r.kind = "error" => outcome.error = r.error

C11_WitnessCsv ==
    /\ outcome.op = "load"
    /\ outcome.format = "auto"
    /\ input.kind = "path"
    /\ input.suffix = ".csv"
    /\ outcome.kind = "session"
    /\ Len(outcome.value.messages) = 2

-----------------------------------------------------------------------------
(* Type codes and statistics *)

\* the label the specification gives a type code
LabelOf(c) ==
    IF c \in 0..9
    THEN <<"text", "image", "voice", "video", "file", "location", "link", "sticker",
           "system", "revoked">>[c + 1]
    ELSE "text"

RECURSIVE SumDict(_, _)
SumDict(d, keys) ==
    IF keys = {} THEN 0
    ELSE LET k == CHOOSE k \in keys : TRUE IN d[k] + SumDict(d, keys \ {k})

RECURSIVE SumCounts(_)
SumCounts(entries) ==
    IF entries = <<>> THEN 0 ELSE Head(entries).count + SumCounts(Tail(entries))

Positions(ms) == 1..Len(ms)

\* C12: the type code of a message is stored as given, inside or outside 0..9,
\* by the constructor, by to_dict and by the exports; message_type and the
\* statistics label a code of 0..9 by the table and any other code "text", and
\* the counts per label add up to the number of messages.
C12_TypeCodePreserved ==
    session # NoSession =>
        LET ms == session.messages
        IN  /\ \A i \in Positions(ms) : \E j \in Positions(input.messages) :
                  ms[i] = input.messages[j]
            /\ \A i \in Positions(ms) :
                  /\ MessageType_to_string(message_type(ms[i])) = LabelOf(ms[i].type)
                  /\ ChatSession_to_dict(session).messages[i].type = ms[i].type
            /\ (outcome.op = "saves" /\ outcome.format = "jsonl") =>
                  \A i \in Positions(ms) :
                      outcome.value[1 + Len(session.members) + i].type = ms[i].type
            /\ outcome.op = "statistics" /\ ms # <<>> =>
                  LET counts == outcome.value.message_types
                  IN  /\ DOMAIN counts = {LabelOf(ms[i].type) : i \in Positions(ms)}
                      /\ \A l \in DOMAIN counts :
                            counts[l] = Cardinality({i \in Positions(ms) :
                                                        LabelOf(ms[i].type) = l})
                      /\ SumDict(counts, DOMAIN counts) = Len(ms)

\* statistics of a session with the codes 12 and 1: two labels, "text" counted
C12_Witness ==
    /\ outcome.op = "statistics"
    /\ \E i \in Positions(session.messages) : session.messages[i].type = 12
    /\ \E i \in Positions(session.messages) : session.messages[i].type = 1
    /\ DOMAIN outcome.value.message_types = {"text", "image"}

\* C13: the statistics of a session with messages give the number of messages,
\* the number of distinct senders, which is the number of keys of sender_stats,
\* and sender counts and timeline counts that each add up to the number of
\* messages.
C13_StatisticsConsistent ==
    (outcome.op = "statistics" /\ session.messages # <<>>) =>
        LET ms == session.messages
            st == outcome.value
            senders == {ms[i].sender : i \in Positions(ms)}
        IN  /\ st.total_messages = Len(ms)
            /\ st.unique_senders = Cardinality(senders)
            /\ {st.sender_stats[k].sender : k \in Positions(st.sender_stats)} = senders
            /\ Len(st.sender_stats) = st.unique_senders
            /\ SumCounts(st.sender_stats) = st.total_messages
            /\ SumCounts(st.timeline) = st.total_messages

\* three messages of two senders on two days
C13_Witness ==
    /\ outcome.op = "statistics"
    /\ outcome.value.total_messages = 3
    /\ outcome.value.unique_senders = 2
    /\ Len(outcome.value.timeline) = 2

StatisticsFields ==
    {"total_messages", "unique_senders", "date_range", "message_types", "timeline",
     "sender_stats"}

\* C14: the statistics of a session without messages have the fields of the
\* statistics of any other session, with zero counts, empty tables and no
\* date range.
C14_EmptyStatistics ==
    (outcome.op = "statistics" /\ session.messages = <<>>) =>
        /\ DOMAIN outcome.value = StatisticsFields
        /\ outcome.value.total_messages = 0
        /\ outcome.value.unique_senders = 0
        /\ outcome.value.date_range = NONE
        /\ outcome.value.message_types = EmptyDict
        /\ outcome.value.timeline = <<>>

\* the fields are those of the specification whenever the session has messages
C14_FieldsOfNonEmpty ==
    (outcome.op = "statistics" /\ session.messages # <<>>) =>
        DOMAIN outcome.value = StatisticsFields

-----------------------------------------------------------------------------
(* Queries *)

\* the messages at the given positions, in the order of the list
RECURSIVE PickFrom(_, _, _)
PickFrom(ms, at, i) ==
    IF i > Len(ms) THEN <<>>
    ELSE (IF i \in at THEN <<ms[i]>> ELSE <<>>) \o PickFrom(ms, at, i + 1)

Pick(ms, at) == PickFrom(ms, at, 1)

\* a letter and its capital
CasePairs == {<<"h", "H">>, <<"e", "E">>, <<"l", "L">>, <<"o", "O">>}

SameLetter(a, b) == a = b \/ <<a, b>> \in CasePairs \/ <<b, a>> \in CasePairs

\* the keyword occurs in the content, letters compared with or without case
Occurs(keyword, content, exact) ==
    LET k == Chars(keyword)
        c == Chars(content)
    IN  \E off \in 0..(Len(c) - Len(k)) :
            \A j \in 1..Len(k) :
                IF exact THEN c[off + j] = k[j] ELSE SameLetter(c[off + j], k[j])

\* C15: get_messages_by_keyword returns the messages whose content contains
\* the keyword, letters compared without regard to case by default and exactly
\* with case_sensitive=True, in the order of the session.
C15_KeywordSearch ==
    outcome.op = "by_keyword" =>
        outcome.value =
            Pick(session.messages,
                 {i \in Positions(session.messages) :
                     Occurs(outcome.arg, session.messages[i].content, outcome.case_sensitive)})

\* "HELLO" finds "Hello", "hello" and "HELLO" by default
C15_Witness ==
    /\ outcome.op = "by_keyword"
    /\ outcome.arg = "HELLO"
    /\ ~outcome.case_sensitive
    /\ Len(outcome.value) = 3
    /\ {outcome.value[i].content : i \in 1..3} = {"Hello", "hello", "HELLO"}

\* "HELLO" with case_sensitive=True does not find "hello"
C15_WitnessExact ==
    /\ outcome.op = "by_keyword"
    /\ outcome.arg = "HELLO"
    /\ outcome.case_sensitive
    /\ Len(outcome.value) = 1
    /\ \E i \in Positions(session.messages) : session.messages[i].content = "hello"

\* the day of January 1970 a timestamp falls on
DayOf(ts) == 1 + (ts \div 86400)

\* what a filter is asked for
Asked(m) ==
    CASE outcome.op = "by_sender" -> m.sender = outcome.arg
      [] outcome.op = "by_name" -> m.account_name = outcome.arg
      [] outcome.op = "by_type" -> m.type = outcome.arg
      [] outcome.op = "by_date" ->
            Len(outcome.arg) = 3 => outcome.arg = <<1970, 1, DayOf(m.timestamp)>>
      [] outcome.op = "by_keyword" ->
            Occurs(outcome.arg, m.content, outcome.case_sensitive)

Filters == {"by_sender", "by_name", "by_type", "by_date", "by_keyword"}

\* C16: a filter returns the messages it is asked for, all of them and no
\* other, in the order they have in the session; whatever queries have been
\* made, the session is the one that was constructed.
C16_QueriesReadOnly ==
    session # NoSession =>
        /\ session = ChatSession(input.chatlab, input.meta, input.members, input.messages)
        /\ outcome.op \in Filters =>
              outcome.value =
                  Pick(session.messages,
                       {i \in Positions(session.messages) : Asked(session.messages[i])})

\* two messages of u1 with a message of u2 between them
C16_Witness ==
    /\ outcome.op = "by_sender"
    /\ outcome.arg = "u1"
    /\ Len(session.messages) = 3
    /\ session.messages[2].sender = "u2"
    /\ outcome.value = <<session.messages[1], session.messages[3]>>

-----------------------------------------------------------------------------
(* The JSON Lines export *)

\* the lines a JSON Lines export produced: the string saves returned or the
\* file save wrote
JsonlLines ==
    IF outcome.op = "saves" THEN outcome.value
    ELSE (CHOOSE f \in files : f.format = "jsonl").content

JsonlExported ==
    /\ outcome.op \in {"save", "saves"}
    /\ outcome.kind # "error"
    /\ outcome.format = "jsonl"

\* C17: a JSON Lines export has 1 + |members| + |messages| lines: one header
\* line with chatlab and meta, then a member line for each member in member
\* order, then a message line for each message in the order of the session,
\* which is the order of the timestamps.
C17_JsonlOrdering ==
    JsonlExported =>
        LET ls == JsonlLines
            nm == Len(session.members)
            ng == Len(session.messages)
        IN  /\ Len(ls) = 1 + nm + ng
            /\ ls[1]._type = "header"
            /\ ls[1].chatlab = ChatLabVersion_to_dict(session.chatlab)
            /\ ls[1].meta = ChatMeta_to_dict(session.meta)
            /\ \A i \in 1..nm :
                  /\ ls[1 + i]._type = "member"
                  /\ ls[1 + i].platformId = session.members[i].platform_id
            /\ \A j \in 1..ng :
                  /\ ls[1 + nm + j]._type = "message"
                  /\ ls[1 + nm + j].sender = session.messages[j].sender
                  /\ ls[1 + nm + j].timestamp = session.messages[j].timestamp
                  /\ ls[1 + nm + j].content = session.messages[j].content
            /\ \A a, b \in 1..Len(ls) :
                  (a < b /\ ls[a]._type = "message") =>
                      /\ ls[b]._type = "message"
                      /\ ls[a].timestamp <= ls[b].timestamp
            /\ \A a \in 2..Len(ls) : ls[a]._type # "header"

\* the export of a session with a member, made from messages given out of order
C17_Witness ==
    /\ JsonlExported
    /\ outcome.op = "saves"
    /\ input.kind = "args"
    /\ Len(session.members) = 1
    /\ Len(session.messages) = 3
    /\ input.messages # session.messages
    /\ Len(outcome.value) = 5

-----------------------------------------------------------------------------
(* Messages with equal timestamps *)

\* C18: the messages of a constructed session are the messages given, each as
\* often as it was given, and two messages with the same timestamp keep the
\* order in which they were given.
C18_StableTies ==
    outcome.op = "construct" =>
        LET given == input.messages
            kept  == session.messages
        IN  /\ Len(kept) = Len(given)
            /\ \E p \in [Positions(kept) -> Positions(given)] :
                  /\ \A i, j \in Positions(kept) : i # j => p[i] # p[j]
                  /\ \A i \in Positions(kept) : kept[i] = given[p[i]]
                  /\ \A i, j \in Positions(kept) :
                        (i < j /\ kept[i].timestamp = kept[j].timestamp) => p[i] < p[j]

\* m3 and m2, both of timestamp 100, given in this order before m1 of
\* timestamp 0
C18_Witness ==
    /\ outcome.op = "construct"
    /\ Len(input.messages) = 3
    /\ input.messages[1].platform_message_id = "m3"
    /\ input.messages[2].platform_message_id = "m2"
    /\ input.messages[3].platform_message_id = "m1"
    /\ session.messages = <<input.messages[3], input.messages[1], input.messages[2]>>

-----------------------------------------------------------------------------
(* Members of a CSV session *)

\* the sender id of data row i: the text under the inferred sender column
SenderOfRow(csv, i) ==
    LET c == FieldCell(csv, i, "sender")
    IN  IF c = MissingCell THEN "unknown" ELSE c.s

\* the display name of data row i: the text under the inferred name column,
\* the sender id without such a column
NameOfRow(csv, i) ==
    LET c == FieldCell(csv, i, "name")
    IN  IF c = MissingCell THEN SenderOfRow(csv, i) ELSE c.s

\* C19: the session parsed from a CSV input with data rows has one member for
\* each sender id of the rows, no two with the same id, every sender of a
\* message among them, each under the display name of the first row of that
\* sender.
C19_ImplicitMembers ==
    (outcome.op = "parse_csv" /\ input.csv.rows # <<>>) =>
        /\ outcome.kind = "session"
        /\ LET csv == input.csv
               mb  == outcome.value.members
           IN  /\ \A a, b \in Positions(mb) : a # b => mb[a].platform_id # mb[b].platform_id
               /\ {mb[a].platform_id : a \in Positions(mb)}
                     = {SenderOfRow(csv, i) : i \in Positions(csv.rows)}
               /\ \A m \in Range(outcome.value.messages) :
                     \E a \in Positions(mb) : mb[a].platform_id = m.sender
               /\ \A a \in Positions(mb) :
                     LET first == CHOOSE i \in Positions(csv.rows) :
                                     /\ SenderOfRow(csv, i) = mb[a].platform_id
                                     /\ \A j \in 1..(i - 1) :
                                           SenderOfRow(csv, j) # mb[a].platform_id
                     IN  mb[a].account_name = NameOfRow(csv, first)

\* on the inputs that are parsed at all, which have no sender column, the
\* members are those of the messages
C19_MembersOfMessages ==
    (outcome.op = "parse_csv" /\ outcome.kind = "session") =>
        LET mb == outcome.value.members
            ms == outcome.value.messages
        IN  /\ \A a, b \in Positions(mb) : a # b => mb[a].platform_id # mb[b].platform_id
            /\ {mb[a].platform_id : a \in Positions(mb)} = {ms[i].sender : i \in Positions(ms)}
            /\ {mb[a].platform_id : a \in Positions(mb)} = {"unknown"}


-----------------------------------------------------------------------------
(* Reuse of a CSVParser instance *)

\* C20: whatever inputs an instance has parsed before, its parse of an input
\* returns the messages, members and meta, or raises the error, that the parse
\* of a new instance returns or raises for that input.
C20_ReuseIndependence ==
    outcome.op = "reuse" =>
        LET fresh == CSVParser_parse(input.csvs[outcome.index], outcome.now)
        IN  /\ outcome.kind = fresh.kind
            /\ outcome.kind = "error" => outcome.error = fresh.error
            /\ outcome.kind = "session" =>
                  /\ outcome.value.messages = fresh.value.messages
                  /\ outcome.value.members = fresh.value.members
                  /\ outcome.value.meta = fresh.value.meta

\* a second parse that returns a session, after a first parse of an input
\* with other header names
C20_Witness ==
    /\ outcome.op = "reuse"
    /\ outcome.index = 2
    /\ outcome.kind = "session"
    /\ input.csvs[1].headers = <<"time", "sender">>
    /\ input.csvs[1].rows # <<>>
    /\ input.csvs[2].headers = <<"col", "note">>
    /\ Len(outcome.value.messages) = 1

-----------------------------------------------------------------------------
(* JSON Lines against JSON *)

\* C21: for every session, parse_jsonl on its JSON Lines serialization returns
\* the session that from_dict returns on its to_dict: the same chatlab, meta,
\* members and messages, in the same order, and nothing of the _type tags.
C21_JsonlAgreesWithJson ==
    outcome.op = "jsonl_roundtrip" =>
        /\ outcome.kind = "session"
        /\ outcome.value = ChatSession_from_dict(ChatSession_to_dict(session))

\* the two agree when the serialization is read from the file and no string of
\* the session holds a line break character
C21_WithoutLineBreaks ==
    (/\ outcome.op = "jsonl_roundtrip"
     /\ outcome.route = "file"
     /\ \A i \in 1..Len(export_stream(session)) :
           StringsOfLine(export_stream(session)[i]) \cap LineBreakStrings = {})
      => /\ outcome.kind = "session"
         /\ outcome.value = ChatSession_from_dict(ChatSession_to_dict(session))

\* a message is lost: the file of a session with the content a<LS>b is read
\* back with one message less
C21_MessageLost ==
    ~(/\ outcome.op = "jsonl_roundtrip"
      /\ outcome.route = "file"
      /\ outcome.kind = "session"
      /\ Len(outcome.value.messages) < Len(session.messages))

=============================================================================
